---- MODULE Spec2Model ----
(***************************************************************************)
(* State-machine model of the notes + auth API (src/app.py) with its      *)
(* collaborators src/database.py, src/auth.py, src/utils.py,              *)
(* depends.py (task 14) and config.py (task 19).                          *)
(*                                                                         *)
(* Spec   : the HTTP handlers behind the middleware, one action per await  *)
(*          point that touches the database or the cache, so that two     *)
(*          requests interleave exactly where the event loop lets them.   *)
(* SpecRL : RateLimiterMiddleware.dispatch over the redis counter keys.    *)
(* SpecNotes, SpecAuth, SpecSearch, SpecRace : the notes endpoints and the *)
(*          cache, one request at a time or (SpecRace) interleaved.        *)
(* SpecTask9 : the notes endpoints of the task 9 snapshot.                 *)
(* SpecWS : ConnectionManager and the /ws handlers.                        *)
(* SpecRLLive : the rate limiter over unbounded time, with fairness.       *)
(*                                                                         *)
(* Data conventions: an optional value is a sequence of length 0 or 1;    *)
(* strings are TLA+ strings, cache keys are built with \o and ToString as  *)
(* the f-strings of the source build them.                                 *)
(***************************************************************************)
EXTENDS Integers, Sequences, FiniteSets, TLC

VARIABLES
    users,      \* rows of table "users"  (database.py:27-33)
    notes,      \* rows of table "notes"  (database.py:16-25)
    note_seq,   \* last value of the notes.id serial
    cache,      \* redis keys "notes:..." : key -> [val, exp]
    now,        \* wall clock, seconds
    issued,     \* access tokens the clients hold (returned by /login)
    req,        \* per request slot: the handler's position and locals
    resp,       \* the response most recently sent, with the request it answers
    rl,         \* redis keys "rate_limit:<host>" : host -> optional [count, exp]
    rlreq,      \* per request slot of the middleware: position and locals
    passed,     \* per host: requests handed to call_next since the key was created
    rlresp,     \* the middleware's most recent outcome
    tasks,      \* celery tasks sent to the broker
    active_connections,   \* ConnectionManager.active_connections, a list
    ws,         \* per websocket: the position of its handler, its broadcast in progress
    wsresp      \* the broadcast most recently finished

vars == <<users, notes, note_seq, cache, now, issued, req, resp, rl, rlreq, passed, rlresp,
          tasks, active_connections, ws, wsresp>>
extVars == <<tasks, active_connections, ws, wsresp>>
apiVars == <<users, notes, note_seq, cache, now, issued, req, resp>>
rlVars == <<rl, rlreq, passed, rlresp>>

----------------------------------------------------------------------------
(* Bounds of the model *)

MaxProcs == 2          \* concurrent requests in flight
MaxNotes == 2          \* notes ever created
MaxTokens == 1         \* tokens the clients keep
MaxTicks == 2          \* clock ticks
TickSeconds == 1200    \* seconds per clock tick of the API
RLTickSeconds == 30    \* seconds per clock tick of the rate limiter
RLExtra == 2           \* requests of a host counted beyond the limit
MaxTasks == 1          \* celery tasks sent
CacheTickSeconds == 300   \* seconds per clock tick where the cache expiry is watched
MaxCacheTicks == 4     \* such clock ticks

Procs == 1..MaxProcs
MaxTime == MaxTicks * TickSeconds

Usernames == {"u1", "u2"}
Passwords == {"p1", "p2"}
RegPasswords == {"p1"}      \* passwords users register with; "p2" is a wrong one
Salts == {"s1"}
CreateTexts == {"a"}        \* texts notes are created with
UpdateTexts == {"B"}        \* texts notes are updated to
AdminName == "root"

----------------------------------------------------------------------------
(* Optional values *)

None == << >>
Some(v) == <<v>>
IsNone(o) == Len(o) = 0
Get(o) == o[1]

----------------------------------------------------------------------------
(* utils.py, auth.py *)

\* the password kept as it came
get_pass_hash_plain(password, salt) ==
    [scheme |-> "plain", salt |-> salt, digest |-> <<password>>]

\* bcrypt digest of a password under a salt: never the plaintext itself
get_pass_hash(password, salt) ==
    [scheme |-> "bcrypt", salt |-> salt, digest |-> <<"H", salt, password>>]

verify_pass(plain_pass, hashed_pass) ==
    hashed_pass.digest = <<"H", hashed_pass.salt, plain_pass>>

ACCESS_TOKEN_EXPIRE_MINUTES == 30

ServerKey == "SECRET_KEY"

\* timedelta(seconds=ACCESS_TOKEN_EXPIRE_MINUTES) in the else branch
create_access_token_seconds(data, expires_delta, utcnow) ==
    LET expire == IF ~IsNone(expires_delta) /\ Get(expires_delta) # 0
                  THEN utcnow + Get(expires_delta)
                  ELSE utcnow + ACCESS_TOKEN_EXPIRE_MINUTES
    IN  [sub |-> data, exp |-> expire, key |-> "SECRET_KEY"]

\* expires_delta is optional, in seconds; `if expires_delta:` is Python truthiness,
\* so a zero timedelta takes the else branch like None does
create_access_token(data, expires_delta, utcnow) ==
    LET expire == IF ~IsNone(expires_delta) /\ Get(expires_delta) # 0
                  THEN utcnow + Get(expires_delta)
                  ELSE utcnow + ACCESS_TOKEN_EXPIRE_MINUTES * 60
    IN  [sub |-> data, exp |-> expire, key |-> ServerKey]

----------------------------------------------------------------------------
(* Responses *)

NoResp == [op |-> "none", status |-> 0, detail |-> "", body |-> None, args |-> None]

Response(op, args, status, detail, body) ==
    [op |-> op, status |-> status, detail |-> detail, body |-> body, args |-> args]

\* an exception no handler catches: the framework answers 500
ServerError(op, args) == Response(op, args, 500, "Internal Server Error", None)

Idle == [op |-> "idle", pc |-> "idle"]

\* request slots are interchangeable: a new request takes the lowest free one
FreeSlot(p) == req[p] = Idle /\ \A q \in Procs : q < p => req[q] # Idle

----------------------------------------------------------------------------
(* database.py: table users *)

UserByName(username) == {u \in users : u.username = username}

\* the column declared without unique=True
UsernameTakenNoConstraint(username) == FALSE

\* Column(String, unique=True): the INSERT fails when the username is stored
UsernameTaken(username) == UserByName(username) # {}

\* a column default that makes every new user an admin
DefaultRoleAdmin == "admin"

\* Column(String, default="user")
DefaultRole == "user"

NewUserId == Cardinality(users) + 1

\* response_model=UserResponse
UserResponse(u) == [id |-> u.id, username |-> u.username]

----------------------------------------------------------------------------
(* depends.py: get_current_user, require_role *)

NoToken == [sub |-> None, exp |-> 0, key |-> "absent"]
ForgedTokens == {[sub |-> Some("u1"), exp |-> MaxTime, key |-> "other"]}

\* a token without the sub claim, and one naming a user that is not stored,
\* both signed with the server key
NoSubToken == [sub |-> None, exp |-> MaxTime, key |-> ServerKey]
GhostToken == [sub |-> Some("ghost"), exp |-> MaxTime, key |-> ServerKey]

\* the decoding without the check of exp
DecodesNoExpiry(token) == token.key = ServerKey

\* jwt.decode: signature under the server key, exp not in the past
Decodes(token) == token.key = ServerKey /\ ~(token.exp < now)

\* the outcome of the dependency: the user row, or the 401 that replaces the handler
get_current_user(token) ==
    IF token.key = "absent"
    THEN [ok |-> FALSE, status |-> 401, detail |-> "Not authenticated"]
    ELSE IF ~Decodes(token) \/ IsNone(token.sub) \/ UserByName(Get(token.sub)) = {}
    THEN [ok |-> FALSE, status |-> 401, detail |-> "Unauthorized"]
    ELSE [ok |-> TRUE, user |-> CHOOSE u \in UserByName(Get(token.sub)) : TRUE]

\* the comparison inverted
RoleAllowedInverted(current_user, required_role) == current_user.role = required_role => FALSE

\* lines 36-41
RoleAllowed(current_user, required_role) == current_user.role = required_role

require_role(token, required_role) ==
    LET a == get_current_user(token)
    IN  IF ~a.ok THEN a
        ELSE IF ~RoleAllowed(a.user, required_role)
        THEN [ok |-> FALSE, status |-> 403, detail |-> "Permission error"]
        ELSE a

PresentableTokens == issued \cup ForgedTokens \cup {NoToken}

----------------------------------------------------------------------------
(* app.py: /register, /login, /users/me, /admin/users *)

\* the query filtering on another column
existing_user_wrong_column(username) == {u \in users : u.role = username}

\* lines 134-136: select(User).where(User.username == user.username)
existing_user(username) == UserByName(username)

\* lines 134-139: the existence query and the 400
register_user_query(p, username, password) ==
    /\ FreeSlot(p)
    /\ IF existing_user(username) # {}
       THEN /\ resp' = Response("register", [username |-> username, password |-> password],
                                400, "User " \o username \o " already exists", None)
            /\ UNCHANGED req
       ELSE /\ req' = [req EXCEPT ![p] = [op |-> "register", pc |-> "commit",
                                          username |-> username, password |-> password]]
            /\ resp' = NoResp
    /\ UNCHANGED <<users, notes, note_seq, cache, now, issued>>
    /\ UNCHANGED <<rlVars, extVars>>

\* lines 140-146: hash, INSERT, commit, refresh, return
register_user_commit(p) ==
    /\ req[p].op = "register" /\ req[p].pc = "commit"
    /\ LET r == req[p]
           args == [username |-> r.username, password |-> r.password]
       IN  \E salt \in Salts :
             IF UsernameTaken(r.username)
             THEN \* IntegrityError out of session.commit()
                  /\ resp' = ServerError("register", args)
                  /\ UNCHANGED users
             ELSE LET db_user == [id |-> NewUserId, username |-> r.username,
                                  password |-> get_pass_hash(r.password, salt),
                                  role |-> DefaultRole]
                  IN  /\ users' = users \cup {db_user}
                      /\ resp' = Response("register", args, 200, "", Some(UserResponse(db_user)))
    /\ req' = [req EXCEPT ![p] = Idle]
    /\ UNCHANGED <<notes, note_seq, cache, now, issued>>
    /\ UNCHANGED <<rlVars, extVars>>

\* the password check left out
LoginRejectedUnknownOnly(found, password) == found = {}

\* line 164: if not db_user or not verify_pass(user.password, db_user.password)
LoginRejected(found, password) ==
    found = {} \/ \A u \in found : ~verify_pass(password, u.password)

\* a detail that tells the two rejections apart
login_detail_by_case(found) ==
    IF found = {} THEN "Invalid username" ELSE "Invalid password"

\* line 166: one detail, whatever the query found
login_detail(found) == "Invalid username or password"

\* lines 159-169
login_user(username, password) ==
    LET found == UserByName(username)
        args == [username |-> username, password |-> password]
    IN  /\ IF LoginRejected(found, password)
           THEN /\ resp' = Response("login", args, 401, login_detail(found), None)
                /\ UNCHANGED issued
           ELSE LET db_user == CHOOSE u \in found : TRUE
                    access_token == create_access_token(Some(db_user.username), None, now)
                IN  /\ resp' = Response("login", args, 200, "",
                                        Some([access_token |-> access_token, token_type |-> "bearer"]))
                    /\ issued' = IF Cardinality(issued) < MaxTokens
                                 THEN issued \cup {access_token} ELSE issued
        /\ UNCHANGED <<users, notes, note_seq, cache, now, req>>
        /\ UNCHANGED <<rlVars, extVars>>

\* lines 182-183
get_me(token) ==
    LET a == get_current_user(token)
    IN  /\ resp' = IF a.ok
                   THEN Response("me", [token |-> token], 200, "",
                                 Some([id |-> a.user.id, username |-> a.user.username]))
                   ELSE Response("me", [token |-> token], a.status, a.detail, None)
        /\ UNCHANGED <<users, notes, note_seq, cache, now, issued, req>>
        /\ UNCHANGED <<rlVars, extVars>>

\* lines 197-204
get_all_users(token) ==
    LET a == require_role(token, "admin")
    IN  /\ resp' = IF a.ok
                   THEN Response("admin_users", [token |-> token], 200, "",
                                 Some({UserResponse(u) : u \in users}))
                   ELSE Response("admin_users", [token |-> token], a.status, a.detail, None)
        /\ UNCHANGED <<users, notes, note_seq, cache, now, issued, req>>
        /\ UNCHANGED <<rlVars, extVars>>

----------------------------------------------------------------------------
(* app.py: /health *)

\* what session.execute(select(1)) can do: return, raise a SQLAlchemyError
\* (a DBAPI error wrapped by SQLAlchemy), or raise an error that is none
\* (the driver's OSError when the connection is refused)
ProbeOutcomes == {"ok", "SQLAlchemyError", "OSError"}

\* an except clause that matches no exception
ProbeCaughtNever(outcome) == FALSE

\* line 458: except SQLAlchemyError
ProbeCaught(outcome) == outcome = "SQLAlchemyError"

\* lines 454-459
health(outcome) ==
    /\ resp' = IF outcome = "ok"
               THEN Response("health", [probe |-> outcome], 200, "", Some([status |-> "ok"]))
               ELSE IF ProbeCaught(outcome)
               THEN Response("health", [probe |-> outcome], 503, "Service Unavailable", None)
               ELSE ServerError("health", [probe |-> outcome])
    /\ UNCHANGED <<users, notes, note_seq, cache, now, issued, req>>
    /\ UNCHANGED <<rlVars, extVars>>

----------------------------------------------------------------------------
(* database.py: table notes; the query of GET /notes *)

\* response_model=NoteOut (from_attributes): is_completed is not part of it
NoteOut(n) == [id |-> n.id, text |-> n.text, created_at |-> n.created_at, owner_id |-> n.owner_id]

\* the select without the owner condition
OwnNoteAnyOwner(note_id, uid) == {n \in notes : n.id = note_id}

\* select(Note).where(Note.id == note_id, Note.owner_id == current_user.id)
OwnNote(note_id, uid) == {n \in notes : n.id = note_id /\ n.owner_id = uid}

Chr(s, i) == SubSeq(s, i, i)
Rest(s) == SubSeq(s, 2, Len(s))
LowerChr(c) == CASE c = "A" -> "a" [] c = "B" -> "b" [] OTHER -> c

\* SQL ILIKE: % is any run of characters, _ any one character, letters match
\* without regard to case
RECURSIVE ILike(_, _)
ILike(text, pattern) ==
    IF Len(pattern) = 0 THEN Len(text) = 0
    ELSE IF Chr(pattern, 1) = "%"
    THEN ILike(text, Rest(pattern)) \/ (Len(text) > 0 /\ ILike(Rest(text), pattern))
    ELSE /\ Len(text) > 0
         /\ (Chr(pattern, 1) = "_" \/ LowerChr(Chr(pattern, 1)) = LowerChr(Chr(text, 1)))
         /\ ILike(Rest(text), Rest(pattern))

\* lines 258-260: the WHERE clause
NotesWhere(uid, search) ==
    {n \in notes : /\ n.owner_id = uid
                   /\ (IsNone(search) \/ ILike(n.text, "%" \o Get(search) \o "%"))}

\* ORDER BY created_at DESC: rows of equal created_at come in any order
OrderByCreatedDesc(rows) ==
    {f \in [1..Cardinality(rows) -> rows] :
        /\ \A i, j \in 1..Cardinality(rows) : i # j => f[i] # f[j]
        /\ \A i, j \in 1..Cardinality(rows) : i < j => f[i].created_at >= f[j].created_at}

\* OFFSET skip LIMIT limit
OffsetLimit(rows, skip, limit) ==
    SubSeq(rows, skip + 1, IF skip + limit < Len(rows) THEN skip + limit ELSE Len(rows))

----------------------------------------------------------------------------
(* redis: the cache of GET /notes *)

CacheTTL == 600

EmptyCache == [k \in {} |-> None]

\* line 254: f"notes:{current_user.id}:{skip}:{limit}:{search or ''}"
\* the key without the user id
cache_key_no_user(uid, skip, limit, search) ==
    "notes:" \o ToString(skip) \o ":" \o ToString(limit) \o ":"
             \o (IF IsNone(search) THEN "" ELSE Get(search))

\* the key without the search text
cache_key_no_search(uid, skip, limit, search) ==
    "notes:" \o ToString(uid) \o ":" \o ToString(skip) \o ":" \o ToString(limit) \o ":"

cache_key(uid, skip, limit, search) ==
    "notes:" \o ToString(uid) \o ":" \o ToString(skip) \o ":" \o ToString(limit) \o ":"
             \o (IF IsNone(search) THEN "" ELSE Get(search))

\* the glob without the colon after the id
ScanPrefixNoColon(uid) == "notes:" \o ToString(uid)

\* the fixed part of the glob f"notes:{current_user.id}:*"
ScanPrefix(uid) == "notes:" \o ToString(uid) \o ":"

HasPrefix(key, prefix) == Len(key) >= Len(prefix) /\ SubSeq(key, 1, Len(prefix)) = prefix

\* [key async for key in redis_client.scan_iter(pattern)]
scan_iter(prefix) == {k \in DOMAIN cache : HasPrefix(k, prefix)}

\* str(datetime) by json.dumps(default=str), and pydantic parsing it back
DateStr(t) == "dt:" \o ToString(t)
ParseDate(s) == CHOOSE t \in 0..MaxTime : DateStr(t) = s

\* json.dumps([NoteOut.from_orm(note).dict() for note in notes], default=str)
DumpNotes(rows) ==
    [i \in 1..Len(rows) |-> [id |-> rows[i].id, text |-> rows[i].text,
                              created_at |-> DateStr(rows[i].created_at),
                              owner_id |-> rows[i].owner_id]]

\* json.loads(cached_data) returned through response_model=List[NoteOut]
LoadNotes(val) ==
    [i \in 1..Len(val) |-> [id |-> val[i].id, text |-> val[i].text,
                             created_at |-> ParseDate(val[i].created_at),
                             owner_id |-> val[i].owner_id]]

\* arguments of a redis command as python values
StrArg(k) == [type |-> "str", v |-> k]
ListArg(ks) == [type |-> "list", v |-> ks]
StrArgs(keys) == {StrArg(k) : k \in keys}

\* redis_client.delete(*names): the client encodes str, bytes and numbers only,
\* any other argument raises DataError before a command is sent
RedisDeleteOK(names) == \A a \in names : a.type = "str"
RedisDelete(names) ==
    [k \in DOMAIN cache \ {a.v : a \in names} |-> cache[k]]

\* only one of the keys found is deleted
InvalidateArgsOneKey(keys) == IF keys = {} THEN {} ELSE {StrArg(CHOOSE k \in keys : TRUE)}

\* lines 229-231 and 353-355: keys = [...]; if keys: delete(*keys)
InvalidateArgs(keys) == StrArgs(keys)
\* line 324: delete([...]), the list itself is the one argument
UpdateInvalidateArgs(keys) == {ListArg(keys)}

----------------------------------------------------------------------------
(* app.py: the notes endpoints *)

Unauthorized(op, args, a) == Response(op, args, a.status, a.detail, None)

NotFound(op, args) == Response(op, args, 404, "Note not found or access denied", None)

\* lines 224-228: INSERT, commit, refresh
create_note_commit(p, token, text) ==
    /\ FreeSlot(p)
    /\ note_seq < MaxNotes
    /\ LET a == get_current_user(token)
           args == [token |-> token, text |-> text]
       IN  IF ~a.ok
           THEN /\ resp' = Unauthorized("create", args, a)
                /\ UNCHANGED <<notes, note_seq, req>>
           ELSE LET db_note == [id |-> note_seq + 1, text |-> text,
                                created_at |-> now, owner_id |-> a.user.id]
                IN  /\ notes' = notes \cup {db_note}
                    /\ note_seq' = note_seq + 1
                    /\ req' = [req EXCEPT ![p] = [op |-> "create", pc |-> "invalidate",
                                                  uid |-> a.user.id, note |-> db_note]]
                    /\ resp' = NoResp
    /\ UNCHANGED <<users, cache, now, issued>>
    /\ UNCHANGED <<rlVars, extVars>>

\* lines 229-233: scan, delete the keys found (if any), return the note
create_note_invalidate(p) ==
    /\ req[p].op = "create" /\ req[p].pc = "invalidate"
    /\ LET keys == scan_iter(ScanPrefix(req[p].uid))
           names == InvalidateArgs(keys)
           args == [uid |-> req[p].uid, note_id |-> req[p].note.id, keys |-> keys]
       IN  IF keys = {} \/ RedisDeleteOK(names)
           THEN /\ cache' = RedisDelete(names)
                /\ resp' = Response("create", args, 200, "", Some(NoteOut(req[p].note)))
           ELSE /\ resp' = ServerError("create", args)
                /\ UNCHANGED cache
    /\ req' = [req EXCEPT ![p] = Idle]
    /\ UNCHANGED <<users, notes, note_seq, now, issued>>
    /\ UNCHANGED <<rlVars, extVars>>

\* lines 253-263: the cache lookup (a stored JSON text is never empty, so every
\* stored entry is a hit) and, on a miss, the database query
get_notes_query(p, token, skip, limit, search) ==
    /\ FreeSlot(p)
    /\ LET a == get_current_user(token)
       IN  IF ~a.ok
           THEN /\ resp' = Unauthorized("list", [token |-> token], a)
                /\ UNCHANGED req
           ELSE LET key == cache_key(a.user.id, skip, limit, search)
                IN  IF key \in DOMAIN cache
                    THEN /\ resp' = Response("list", [uid |-> a.user.id, key |-> key,
                                                      from |-> "cache"],
                                             200, "", Some(LoadNotes(cache[key].val)))
                         /\ UNCHANGED req
                    ELSE /\ \E rows \in OrderByCreatedDesc(NotesWhere(a.user.id, search)) :
                              req' = [req EXCEPT ![p] =
                                         [op |-> "list", pc |-> "setex", uid |-> a.user.id,
                                          key |-> key, rows |-> OffsetLimit(rows, skip, limit)]]
                         /\ resp' = NoResp
    /\ UNCHANGED <<users, notes, note_seq, cache, now, issued>>
    /\ UNCHANGED <<rlVars, extVars>>

\* lines 269-271
get_notes_setex(p) ==
    /\ req[p].op = "list" /\ req[p].pc = "setex"
    /\ LET r == req[p]
           entry == [val |-> DumpNotes(r.rows), exp |-> now + CacheTTL]
       IN  /\ cache' = [k \in DOMAIN cache \cup {r.key} |->
                            IF k = r.key THEN entry ELSE cache[k]]
           /\ resp' = Response("list", [uid |-> r.uid, key |-> r.key, from |-> "db"],
                               200, "", Some([i \in 1..Len(r.rows) |-> NoteOut(r.rows[i])]))
    /\ req' = [req EXCEPT ![p] = Idle]
    /\ UNCHANGED <<users, notes, note_seq, now, issued>>
    /\ UNCHANGED <<rlVars, extVars>>

\* lines 285-295
get_note_by_id(token, note_id) ==
    /\ LET a == get_current_user(token)
           args == [token |-> token, note_id |-> note_id]
       IN  resp' = IF ~a.ok THEN Unauthorized("get", args, a)
                   ELSE IF OwnNote(note_id, a.user.id) = {} THEN NotFound("get", args)
                   ELSE Response("get", args, 200, "",
                                 Some(NoteOut(CHOOSE n \in OwnNote(note_id, a.user.id) : TRUE)))
    /\ UNCHANGED <<users, notes, note_seq, cache, now, issued, req>>
    /\ UNCHANGED <<rlVars, extVars>>

\* an update that writes the row anew, with a later created_at
set_text_new_row(note, text) ==
    [note EXCEPT !.text = text, !.created_at = note.created_at + 1]

\* note.text = note_update.text
set_text(note, text) == [note EXCEPT !.text = text]

\* lines 316-323: select, 404, UPDATE, commit, refresh
update_note_commit(p, token, note_id, text) ==
    /\ FreeSlot(p)
    /\ LET a == get_current_user(token)
           args == [token |-> token, note_id |-> note_id]
       IN  IF ~a.ok
           THEN resp' = Unauthorized("update", args, a) /\ UNCHANGED <<req, notes>>
           ELSE IF OwnNote(note_id, a.user.id) = {}
           THEN resp' = NotFound("update", args) /\ UNCHANGED <<req, notes>>
           ELSE LET old == CHOOSE n \in OwnNote(note_id, a.user.id) : TRUE
                    new == set_text(old, text)
                IN  /\ notes' = (notes \ {old}) \cup {new}
                    /\ req' = [req EXCEPT ![p] = [op |-> "update", pc |-> "invalidate",
                                                  uid |-> a.user.id, note |-> new]]
                    /\ resp' = NoResp
    /\ UNCHANGED <<users, note_seq, cache, now, issued>>
    /\ UNCHANGED <<rlVars, extVars>>

\* lines 324-325: scan, delete with the list as its one argument, return the note
update_note_invalidate(p) ==
    /\ req[p].op = "update" /\ req[p].pc = "invalidate"
    /\ LET r == req[p]
           keys == scan_iter(ScanPrefix(r.uid))
           names == UpdateInvalidateArgs(keys)
           args == [uid |-> r.uid, note_id |-> r.note.id, keys |-> keys]
       IN  IF RedisDeleteOK(names)
           THEN /\ cache' = RedisDelete(names)
                /\ resp' = Response("update", args, 200, "", Some(NoteOut(r.note)))
           ELSE /\ resp' = ServerError("update", args)
                /\ UNCHANGED cache
    /\ req' = [req EXCEPT ![p] = Idle]
    /\ UNCHANGED <<users, notes, note_seq, now, issued>>
    /\ UNCHANGED <<rlVars, extVars>>

\* the DELETE takes every note of the owner along
session_delete_all_of_owner(note) == {n \in notes : n.owner_id # note.owner_id}

\* line 350: session.delete(note), the table after the commit of line 351
session_delete(note) == notes \ {note}

\* lines 345-351: select, 404, DELETE, commit
delete_note_commit(p, token, note_id) ==
    /\ FreeSlot(p)
    /\ LET a == get_current_user(token)
           args == [token |-> token, note_id |-> note_id]
       IN  IF ~a.ok
           THEN resp' = Unauthorized("delete", args, a) /\ UNCHANGED <<req, notes>>
           ELSE IF OwnNote(note_id, a.user.id) = {}
           THEN resp' = NotFound("delete", args) /\ UNCHANGED <<req, notes>>
           ELSE /\ notes' = session_delete(CHOOSE n \in OwnNote(note_id, a.user.id) : TRUE)
                /\ req' = [req EXCEPT ![p] = [op |-> "delete", pc |-> "invalidate",
                                              uid |-> a.user.id, note_id |-> note_id]]
                /\ resp' = NoResp
    /\ UNCHANGED <<users, note_seq, cache, now, issued>>
    /\ UNCHANGED <<rlVars, extVars>>

\* lines 353-357: scan, delete the keys found (if any), 204
delete_note_invalidate(p) ==
    /\ req[p].op = "delete" /\ req[p].pc = "invalidate"
    /\ LET keys == scan_iter(ScanPrefix(req[p].uid))
           names == InvalidateArgs(keys)
           args == [uid |-> req[p].uid, note_id |-> req[p].note_id, keys |-> keys]
       IN  IF keys = {} \/ RedisDeleteOK(names)
           THEN /\ cache' = RedisDelete(names)
                /\ resp' = Response("delete", args, 204, "", None)
           ELSE /\ resp' = ServerError("delete", args)
                /\ UNCHANGED cache
    /\ req' = [req EXCEPT ![p] = Idle]
    /\ UNCHANGED <<users, notes, note_seq, now, issued>>
    /\ UNCHANGED <<rlVars, extVars>>

----------------------------------------------------------------------------
(* The snapshot of task 9 (app.py of that task): the notes endpoints without *)
(* the cache, each a single transaction                                       *)

NotFound_9(op, args) == Response(op, args, 404, "Note is not found or access error", None)

\* lines 109-118 of the snapshot
create_note_9(token, text) ==
    /\ note_seq < MaxNotes
    /\ LET a == get_current_user(token)
           args == [token |-> token, text |-> text]
       IN  IF ~a.ok
           THEN /\ resp' = Unauthorized("create_9", args, a)
                /\ UNCHANGED <<notes, note_seq>>
           ELSE LET db_note == [id |-> note_seq + 1, text |-> text,
                                created_at |-> now, owner_id |-> a.user.id]
                IN  /\ notes' = notes \cup {db_note}
                    /\ note_seq' = note_seq + 1
                    /\ resp' = Response("create_9", args, 200, "", Some(NoteOut(db_note)))
    /\ UNCHANGED <<users, cache, now, issued, req>>
    /\ UNCHANGED <<rlVars, extVars>>

\* lines 120-138 of the snapshot
get_notes_9(token, skip, limit, search) ==
    /\ LET a == get_current_user(token)
           args == [token |-> token]
       IN  IF ~a.ok
           THEN resp' = Unauthorized("list_9", args, a)
           ELSE \E rows \in OrderByCreatedDesc(NotesWhere(a.user.id, search)) :
                   resp' = Response("list_9", [uid |-> a.user.id], 200, "",
                                    Some([i \in 1..Len(OffsetLimit(rows, skip, limit)) |->
                                             NoteOut(OffsetLimit(rows, skip, limit)[i])]))
    /\ UNCHANGED <<users, notes, note_seq, cache, now, issued, req>>
    /\ UNCHANGED <<rlVars, extVars>>

\* lines 153-166 of the snapshot
update_note_9(token, note_id, text) ==
    /\ LET a == get_current_user(token)
           args == [token |-> token, note_id |-> note_id]
       IN  IF ~a.ok
           THEN resp' = Unauthorized("update_9", args, a) /\ UNCHANGED notes
           ELSE IF OwnNote(note_id, a.user.id) = {}
           THEN resp' = NotFound_9("update_9", args) /\ UNCHANGED notes
           ELSE LET old == CHOOSE n \in OwnNote(note_id, a.user.id) : TRUE
                    new == [old EXCEPT !.text = text]
                IN  /\ notes' = (notes \ {old}) \cup {new}
                    /\ resp' = Response("update_9", args, 200, "", Some(NoteOut(new)))
    /\ UNCHANGED <<users, note_seq, cache, now, issued, req>>
    /\ UNCHANGED <<rlVars, extVars>>

\* line 168 of the snapshot: status_code=status.HTTP_204_NO_CONTENT
DeleteStatus_9 == 204

\* line 180 of the snapshot: the returned dict; a framework version that
\* honours 204 sends no body, an older one sends the JSON
DeleteBodies_9 == {None, Some([message |-> "Note is deleted"])}

\* lines 168-180 of the snapshot
delete_note_9(token, note_id) ==
    /\ LET a == get_current_user(token)
           args == [token |-> token, note_id |-> note_id]
       IN  IF ~a.ok
           THEN resp' = Unauthorized("delete_9", args, a) /\ UNCHANGED notes
           ELSE IF OwnNote(note_id, a.user.id) = {}
           THEN resp' = NotFound_9("delete_9", args) /\ UNCHANGED notes
           ELSE /\ notes' = session_delete(CHOOSE n \in OwnNote(note_id, a.user.id) : TRUE)
                /\ \E body \in DeleteBodies_9 :
                      resp' = Response("delete_9", args, DeleteStatus_9, "", body)
    /\ UNCHANGED <<users, note_seq, cache, now, issued, req>>
    /\ UNCHANGED <<rlVars, extVars>>

----------------------------------------------------------------------------
(* Time *)

Tick ==
    /\ now + TickSeconds <= MaxTime
    /\ now' = now + TickSeconds
    /\ cache' = [k \in {k \in DOMAIN cache : cache[k].exp > now'} |-> cache[k]]
    /\ resp' = NoResp
    /\ UNCHANGED <<users, notes, note_seq, issued, req>>
    /\ UNCHANGED <<rlVars, extVars>>

\* a store that never drops a key
CacheLiveForever(entry, t) == TRUE

\* line 270, setex: redis drops the key once its expiry is reached
CacheLive(entry, t) == entry.exp > t

\* the clock in steps fine enough to see a cached list expire
CacheTick ==
    /\ now + CacheTickSeconds <= MaxCacheTicks * CacheTickSeconds
    /\ now' = now + CacheTickSeconds
    /\ cache' = [k \in {k \in DOMAIN cache : CacheLive(cache[k], now')} |-> cache[k]]
    /\ resp' = NoResp
    /\ UNCHANGED <<users, notes, note_seq, issued, req>>
    /\ UNCHANGED <<rlVars, extVars>>

----------------------------------------------------------------------------
(* app.py: RateLimiterMiddleware; config.py: Settings *)

rate_limit == 10
rate_limit_window == 60

Hosts == {"h1", "h2"}

NoKeys == [h \in Hosts |-> None]
NoPassed == [h \in Hosts |-> 0]
RLIdle == [pc |-> "idle"]

RLFreeSlot(p) == rlreq[p] = RLIdle /\ \A q \in Procs : q < p => rlreq[q] # RLIdle

\* redis INCR: one atomic command; a missing key counts from 0 and has no expiry
Incr(h) == IF IsNone(rl[h]) THEN [count |-> 1, exp |-> None]
           ELSE [Get(rl[h]) EXCEPT !.count = @ + 1]

\* the comparison off by one
TooManyOffByOne(count) == count > rate_limit + 1

\* line 412
TooMany(count) == count > rate_limit

\* lines 412-415: the 429, or the response of the application (200 here)
Outcome(h, count) ==
    Response("dispatch", [host |-> h, count |-> count],
             IF TooMany(count) THEN 429 ELSE 200,
             IF TooMany(count) THEN "Too Many Requests" ELSE "", None)

\* line 414: the request is handed to the application unless it was answered 429
CallNext(h, count) ==
    passed' = IF TooMany(count) THEN passed ELSE [passed EXCEPT ![h] = @ + 1]

\* an EXPIRE with every request
FirstOfPeriodAlways(count) == count >= 1

\* line 410: if count == 1
FirstOfPeriod(count) == count = 1

\* lines 408-410, and 412-415 when the count is not 1
dispatch_incr(p, h) ==
    /\ RLFreeSlot(p)
    /\ (IF IsNone(rl[h]) THEN 0 ELSE Get(rl[h]).count) < rate_limit + RLExtra
    /\ LET key == Incr(h)
       IN  /\ rl' = [rl EXCEPT ![h] = Some(key)]
           /\ IF FirstOfPeriod(key.count)
              THEN /\ rlreq' = [rlreq EXCEPT ![p] = [pc |-> "expire", host |-> h,
                                                    count |-> key.count]]
                   /\ passed' = [passed EXCEPT ![h] = 0]
                   /\ rlresp' = NoResp
              ELSE /\ CallNext(h, key.count)
                   /\ rlresp' = Outcome(h, key.count)
                   /\ UNCHANGED rlreq
    /\ UNCHANGED <<users, notes, note_seq, cache, now, issued, req, resp>>
    /\ UNCHANGED extVars

\* line 411, then 412-415
dispatch_expire(p) ==
    /\ rlreq[p].pc = "expire"
    /\ LET h == rlreq[p].host
           count == rlreq[p].count
       IN  /\ rl' = IF IsNone(rl[h]) THEN rl
                    ELSE [rl EXCEPT ![h] = Some([Get(@) EXCEPT !.exp = Some(now + rate_limit_window)])]
           /\ CallNext(h, count)
           /\ rlresp' = Outcome(h, count)
    /\ rlreq' = [rlreq EXCEPT ![p] = RLIdle]
    /\ UNCHANGED <<users, notes, note_seq, cache, now, issued, req, resp>>
    /\ UNCHANGED extVars

\* the clock of the rate limiter; redis drops a key once its expiry is reached
Expired(k, t) == ~IsNone(k) /\ ~IsNone(Get(k).exp) /\ Get(Get(k).exp) <= t

RLTick ==
    /\ now + RLTickSeconds <= MaxTicks * RLTickSeconds
    /\ now' = now + RLTickSeconds
    /\ rl' = [h \in Hosts |-> IF Expired(rl[h], now') THEN None ELSE rl[h]]
    /\ rlresp' = NoResp
    /\ UNCHANGED <<users, notes, note_seq, cache, issued, req, resp, rlreq, passed>>
    /\ UNCHANGED extVars

----------------------------------------------------------------------------
(* app.py: ConnectionManager, /ws; /trigger-task *)

\* the websockets clients open
Conns == {"c1", "c2", "c3"}

\* a websocket whose handler is not running
WSClosed == [pc |-> "closed"]

\* lines 372-374: the task is sent to the broker
trigger_task(token) ==
    /\ tasks < MaxTasks
    /\ LET a == get_current_user(token)
       IN  IF ~a.ok
           THEN /\ resp' = Response("trigger_task", [token |-> token], a.status, a.detail, None)
                /\ UNCHANGED tasks
           ELSE /\ tasks' = tasks + 1
                /\ resp' = Response("trigger_task", [token |-> token], 202, "",
                                    Some([message |-> "Task started"]))
    /\ UNCHANGED <<users, notes, note_seq, cache, now, issued, req>>
    /\ UNCHANGED <<rlVars, active_connections, ws, wsresp>>

\* no task sent, manager = ConnectionManager() with its empty list
ExtInit ==
    /\ tasks = 0
    /\ active_connections = << >>
    /\ ws = [c \in Conns |-> WSClosed]
    /\ wsresp = NoResp

\* the texts clients send on /ws
WsTexts == {"hi"}

InList(c) == \E i \in 1..Len(active_connections) : active_connections[i] = c

\* list.pop() in the place of list.remove(x)
ListRemoveLast(list, x) == SubSeq(list, 1, Len(list) - 1)

\* list.remove(x): the first occurrence goes, the rest moves up
ListRemove(list, x) ==
    LET i == CHOOSE k \in 1..Len(list) : list[k] = x /\ \A j \in 1..(k - 1) : list[j] # x
    IN  SubSeq(list, 1, i - 1) \o SubSeq(list, i + 1, Len(list))

\* line 98-100: for connection in self.active_connections starts; `it` is the
\* index of the list iterator, `stayed` the connections that have been in the
\* list since the start, `got` those the message was sent to
StartBroadcast(c, user, kind, message, list, after) ==
    [pc |-> "broadcast", user |-> user, kind |-> kind, message |-> message, it |-> 0,
     stayed |-> {list[i] : i \in 1..Len(list)}, got |-> {}, after |-> after]

\* the broadcasts in progress lose a connection that leaves the list
Leaves(c, w) ==
    [d \in Conns |-> IF w[d].pc = "broadcast" THEN [w[d] EXCEPT !.stayed = @ \ {c}] ELSE w[d]]

\* lines 381-382 and 91-93: the dependency yields the user, accept, append
ws_connect(c, token) ==
    /\ ws[c].pc = "closed"
    /\ get_current_user(token).ok
    /\ active_connections' = Append(active_connections, c)
    /\ ws' = [ws EXCEPT ![c] = [pc |-> "open", user |-> get_current_user(token).user.username]]
    /\ wsresp' = NoResp
    /\ UNCHANGED <<apiVars, rlVars, tasks>>

\* lines 385-386: receive_text returns, the broadcast begins
ws_receive(c, data) ==
    /\ ws[c].pc = "open"
    /\ ws' = [ws EXCEPT ![c] =
                 StartBroadcast(c, ws[c].user, "text", "User " \o ws[c].user \o ": " \o data,
                                active_connections, "open")]
    /\ wsresp' = NoResp
    /\ UNCHANGED <<apiVars, rlVars, tasks, active_connections>>

\* lines 99-100: the list iterator yields the element at its index, if the
\* list is that long now, and the handler is suspended in send_text; at the
\* end of the list the broadcast is over
ws_send(c) ==
    /\ ws[c].pc = "broadcast"
    /\ IF ws[c].it < Len(active_connections)
       THEN /\ ws' = [ws EXCEPT ![c].got = @ \cup {active_connections[ws[c].it + 1]},
                                ![c].it = @ + 1]
            /\ wsresp' = NoResp
       ELSE /\ ws' = [ws EXCEPT ![c] = IF ws[c].after = "open"
                                       THEN [pc |-> "open", user |-> ws[c].user]
                                       ELSE WSClosed]
            /\ wsresp' = Response("broadcast",
                                  [conn |-> c, kind |-> ws[c].kind, stayed |-> ws[c].stayed],
                                  0, ws[c].message, Some(ws[c].got))
    /\ UNCHANGED <<apiVars, rlVars, tasks, active_connections>>

\* lines 387-389 and 95-96: receive_text raises WebSocketDisconnect, the
\* websocket is removed from the list and the notice is broadcast
ws_disconnect(c) ==
    /\ ws[c].pc = "open"
    /\ InList(c)
    /\ active_connections' = ListRemove(active_connections, c)
    /\ ws' = [Leaves(c, ws) EXCEPT ![c] =
                 StartBroadcast(c, ws[c].user, "notice", "User " \o ws[c].user \o " disconnected",
                                active_connections', "closed")]
    /\ wsresp' = NoResp
    /\ UNCHANGED <<apiVars, rlVars, tasks>>

\* what send_text raises when the transport of the recipient is gone:
\* WebSocketDisconnect or another exception, depending on the server
SendErrors == {"WebSocketDisconnect", "Exception"}

\* lines 99-100 raising inside the handler of c: send_text to the connection
\* the iterator yields raises exc and broadcast passes it on. In the receive
\* loop (385-386) a WebSocketDisconnect is caught on line 387: c is removed
\* and the notice is broadcast; any other exception is caught on line 390: c
\* is removed and closed. In the broadcast of the notice (389) the exception
\* leaves the handler.
ws_send_fails(c, exc) ==
    /\ ws[c].pc = "broadcast"
    /\ ws[c].it < Len(active_connections)
    /\ wsresp' = Response("send_failed",
                          [conn |-> c, kind |-> ws[c].kind, exc |-> exc,
                           to |-> active_connections[ws[c].it + 1],
                           rest |-> {active_connections[i] :
                                        i \in (ws[c].it + 2)..Len(active_connections)}],
                          0, ws[c].message, Some(ws[c].got))
    /\ IF ws[c].kind = "text"
       THEN /\ active_connections' = ListRemove(active_connections, c)
            /\ ws' = [Leaves(c, ws) EXCEPT ![c] =
                         IF exc = "WebSocketDisconnect"
                         THEN StartBroadcast(c, ws[c].user, "notice",
                                             "User " \o ws[c].user \o " disconnected",
                                             active_connections', "closed")
                         ELSE WSClosed]
       ELSE /\ ws' = [ws EXCEPT ![c] = WSClosed]
            /\ UNCHANGED active_connections
    /\ UNCHANGED <<apiVars, rlVars, tasks>>

\* line 411 raising: the connection to redis is lost, or the request is
\* cancelled, between INCR and EXPIRE; the finally clause closes the client,
\* call_next is not reached and the key stays as INCR made it
dispatch_expire_fails(p) ==
    /\ rlreq[p].pc = "expire"
    /\ rlresp' = ServerError("dispatch", [host |-> rlreq[p].host, count |-> rlreq[p].count])
    /\ rlreq' = [rlreq EXCEPT ![p] = RLIdle]
    /\ UNCHANGED <<rl, passed>>
    /\ UNCHANGED <<users, notes, note_seq, cache, now, issued, req, resp>>
    /\ UNCHANGED extVars

\* RLTickSeconds go by, seen from the new present: every expiry is that much
\* nearer, a key whose expiry is reached is dropped, a key without expiry stays
Elapse(k) ==
    IF IsNone(k) \/ IsNone(Get(k).exp) THEN k
    ELSE IF Get(Get(k).exp) - RLTickSeconds <= now THEN None
    ELSE Some([Get(k) EXCEPT !.exp = Some(Get(@) - RLTickSeconds)])

RLElapse ==
    /\ rl' = [h \in Hosts |-> Elapse(rl[h])]
    /\ rlresp' = NoResp
    /\ UNCHANGED <<users, notes, note_seq, cache, now, issued, req, resp, rlreq, passed>>
    /\ UNCHANGED extVars

----------------------------------------------------------------------------
(* Specification of the API *)

\* a row inserted by hand: /register only ever stores role "user"
AdminRow == [id |-> 1, username |-> AdminName,
             password |-> get_pass_hash("p1", "s1"), role |-> "admin"]

Init ==
    /\ users \in {{}, {AdminRow}}
    /\ notes = {}
    /\ note_seq = 0
    /\ cache = EmptyCache
    /\ now = 0
    /\ issued = {}
    /\ req = [p \in Procs |-> Idle]
    /\ resp = NoResp
    /\ rl = NoKeys
    /\ rlreq = [p \in Procs |-> RLIdle]
    /\ passed = NoPassed
    /\ rlresp = NoResp
    /\ ExtInit

Next ==
    \/ \E p \in Procs, u \in Usernames, pw \in RegPasswords : register_user_query(p, u, pw)
    \/ \E p \in Procs : register_user_commit(p)
    \/ \E u \in Usernames \cup {AdminName}, pw \in Passwords : login_user(u, pw)
    \/ \E t \in PresentableTokens : get_me(t)
    \/ \E t \in PresentableTokens : get_all_users(t)
    \/ \E o \in ProbeOutcomes : health(o)
    \/ Tick

Spec == Init /\ [][Next]_vars

----------------------------------------------------------------------------
(* Specification of the notes endpoints, one request at a time, each in the   *)
(* steps above. Two users have registered and logged in at time 0: /register  *)
(* and /login read and write neither notes nor cache, and the notes endpoints *)
(* leave users and tokens alone. The clock stands still here.                 *)

RegisteredUser(id, username) ==
    [id |-> id, username |-> username, password |-> get_pass_hash("p1", "s1"),
     role |-> DefaultRole]

NoteTokens == {create_access_token(Some(u), None, 0) : u \in Usernames}

\* the (skip, limit, search) a client lists with
ListParams == {<<0, 100, None>>, <<1, 1, Some("b")>>}

InitNotes ==
    /\ users = {RegisteredUser(1, "u1"), RegisteredUser(2, "u2")}
    /\ notes = {}
    /\ note_seq = 0
    /\ cache = EmptyCache
    /\ now = 0
    /\ issued = NoteTokens
    /\ req = [p \in Procs |-> Idle]
    /\ resp = NoResp
    /\ rl = NoKeys
    /\ rlreq = [p \in Procs |-> RLIdle]
    /\ passed = NoPassed
    /\ rlresp = NoResp
    /\ ExtInit

NoteIds == 1..MaxNotes

\* the notes endpoints are run one request at a time
SeqProcs == {1}

NextNotes ==
    \/ \E p \in SeqProcs, t \in issued, x \in CreateTexts : create_note_commit(p, t, x)
    \/ \E p \in SeqProcs : create_note_invalidate(p)
    \/ \E p \in SeqProcs, t \in issued, q \in ListParams :
          get_notes_query(p, t, q[1], q[2], q[3])
    \/ \E p \in SeqProcs : get_notes_setex(p)
    \/ \E t \in issued, id \in NoteIds : get_note_by_id(t, id)
    \/ \E p \in SeqProcs, t \in issued, id \in NoteIds, x \in UpdateTexts :
          update_note_commit(p, t, id, x)
    \/ \E p \in SeqProcs : update_note_invalidate(p)
    \/ \E p \in SeqProcs, t \in issued, id \in NoteIds : delete_note_commit(p, t, id)
    \/ \E p \in SeqProcs : delete_note_invalidate(p)

SpecNotes == InitNotes /\ [][NextNotes]_vars

----------------------------------------------------------------------------
(* Specification of the endpoints behind get_current_user, called with every *)
(* kind of token while the clock runs                                         *)

\* what a client can put into the Authorization header
AuthTokens == issued \cup ForgedTokens \cup {NoToken, NoSubToken, GhostToken}

\* two users are registered, the first has logged in at time 0
InitAuth ==
    /\ users = {RegisteredUser(1, "u1"), RegisteredUser(2, "u2")}
    /\ notes = {}
    /\ note_seq = 0
    /\ cache = EmptyCache
    /\ now = 0
    /\ issued = {create_access_token(Some("u1"), None, 0)}
    /\ req = [p \in Procs |-> Idle]
    /\ resp = NoResp
    /\ rl = NoKeys
    /\ rlreq = [p \in Procs |-> RLIdle]
    /\ passed = NoPassed
    /\ rlresp = NoResp
    /\ ExtInit

NextAuth ==
    \/ \E t \in AuthTokens : get_me(t)
    \/ \E t \in AuthTokens : get_all_users(t)
    \/ \E t \in AuthTokens : trigger_task(t)
    \/ \E p \in SeqProcs, t \in AuthTokens, x \in CreateTexts : create_note_commit(p, t, x)
    \/ \E p \in SeqProcs : create_note_invalidate(p)
    \/ \E p \in SeqProcs, t \in AuthTokens : get_notes_query(p, t, 0, 100, None)
    \/ \E p \in SeqProcs : get_notes_setex(p)
    \/ \E t \in AuthTokens, id \in NoteIds : get_note_by_id(t, id)
    \/ \E p \in SeqProcs, t \in AuthTokens, id \in NoteIds, x \in UpdateTexts :
          update_note_commit(p, t, id, x)
    \/ \E p \in SeqProcs : update_note_invalidate(p)
    \/ \E p \in SeqProcs, t \in AuthTokens, id \in NoteIds : delete_note_commit(p, t, id)
    \/ \E p \in SeqProcs : delete_note_invalidate(p)
    \/ Tick

SpecAuth == InitAuth /\ [][NextAuth]_vars

----------------------------------------------------------------------------
(* Specification of /ws: the handlers of the open websockets interleave at   *)
(* their awaits                                                               *)

NextWS ==
    \/ \E c \in Conns, t \in issued : ws_connect(c, t)
    \/ \E c \in Conns, d \in WsTexts : ws_receive(c, d)
    \/ \E c \in Conns : ws_send(c)
    \/ \E c \in Conns : ws_disconnect(c)

SpecWS == InitNotes /\ [][NextWS]_vars

\* /ws with sends that fail
NextWSFail ==
    \/ NextWS
    \/ \E c \in Conns, exc \in SendErrors : ws_send_fails(c, exc)

SpecWSFail == InitNotes /\ [][NextWSFail]_vars

----------------------------------------------------------------------------
(* Specification of GET /notes as a query: notes of several texts are created *)
(* at different times and listed with several skip, limit and search          *)

SearchTexts == {"a", "Ab"}

\* (skip, limit, search): "B" differs in case only, "_" is a character that
\* SQL LIKE reads as a wildcard
SearchParams == {<<0, 100, None>>, <<1, 1, None>>, <<0, 1, Some("B")>>, <<0, 100, Some("_")>>}

NextSearch ==
    \/ \E p \in SeqProcs, t \in issued, x \in SearchTexts : create_note_commit(p, t, x)
    \/ \E p \in SeqProcs : create_note_invalidate(p)
    \/ \E p \in SeqProcs, t \in issued, q \in SearchParams :
          get_notes_query(p, t, q[1], q[2], q[3])
    \/ \E p \in SeqProcs : get_notes_setex(p)
    \/ Tick

SpecSearch == InitAuth /\ [][NextSearch]_vars

----------------------------------------------------------------------------
(* Specification of the notes endpoints of the task 9 snapshot *)

NextTask9 ==
    \/ \E t \in issued, x \in SearchTexts : create_note_9(t, x)
    \/ \E t \in issued, q \in ListParams : get_notes_9(t, q[1], q[2], q[3])
    \/ \E t \in issued, id \in NoteIds, x \in UpdateTexts : update_note_9(t, id, x)
    \/ \E t \in issued, id \in NoteIds : delete_note_9(t, id)

SpecTask9 == InitNotes /\ [][NextTask9]_vars

----------------------------------------------------------------------------
(* Specification of the notes endpoints of one user with requests in flight  *)
(* at the same time: a write and a GET /notes interleave at their awaits     *)

NextRace ==
    \/ \E p \in Procs, t \in issued, x \in CreateTexts : create_note_commit(p, t, x)
    \/ \E p \in Procs : create_note_invalidate(p)
    \/ \E p \in Procs, t \in issued : get_notes_query(p, t, 0, 100, None)
    \/ \E p \in Procs : get_notes_setex(p)
    \/ \E p \in Procs, t \in issued, id \in NoteIds : delete_note_commit(p, t, id)
    \/ \E p \in Procs : delete_note_invalidate(p)

SpecRace == InitAuth /\ [][NextRace]_vars

----------------------------------------------------------------------------
(* Specification of GET /notes and its cache while time passes *)

NextTTL ==
    \/ \E p \in SeqProcs, t \in issued, x \in CreateTexts : create_note_commit(p, t, x)
    \/ \E p \in SeqProcs : create_note_invalidate(p)
    \/ \E p \in SeqProcs, t \in issued, q \in ListParams :
          get_notes_query(p, t, q[1], q[2], q[3])
    \/ \E p \in SeqProcs : get_notes_setex(p)
    \/ CacheTick

SpecTTL == InitAuth /\ [][NextTTL]_vars

----------------------------------------------------------------------------
(* Specification of the notes endpoints for two users whose ids are 1 and   *)
(* 10, the decimal digits of one id beginning the other                      *)

InitPrefix ==
    /\ users = {RegisteredUser(1, "u1"), RegisteredUser(10, "u2")}
    /\ notes = {}
    /\ note_seq = 0
    /\ cache = EmptyCache
    /\ now = 0
    /\ issued = NoteTokens
    /\ req = [p \in Procs |-> Idle]
    /\ resp = NoResp
    /\ rl = NoKeys
    /\ rlreq = [p \in Procs |-> RLIdle]
    /\ passed = NoPassed
    /\ rlresp = NoResp
    /\ ExtInit

SpecPrefix == InitPrefix /\ [][NextNotes]_vars

----------------------------------------------------------------------------
(* Specification of create_access_token as a function: it is called with    *)
(* every kind of expires_delta at several times                             *)

\* expires_delta in seconds: left out, zero, short, the default, long, negative
ExpiresDeltas == {None, Some(0), Some(1), Some(60), Some(1800), Some(3600), Some(0 - 60)}

\* auth.py lines 11-21, called at time now
call_create_access_token(username, expires_delta) ==
    /\ Cardinality(issued) <= MaxTokens
    /\ LET token == create_access_token(Some(username), expires_delta, now)
       IN  /\ issued' = issued \cup {token}
           /\ resp' = Response("create_access_token",
                               [data |-> Some(username), expires_delta |-> expires_delta,
                                utcnow |-> now],
                               0, "", Some(token))
    /\ UNCHANGED <<users, notes, note_seq, cache, now, req>>
    /\ UNCHANGED <<rlVars, extVars>>

NextToken ==
    \/ \E u \in Usernames, d \in ExpiresDeltas : call_create_access_token(u, d)
    \/ Tick

SpecToken == Init /\ [][NextToken]_vars

----------------------------------------------------------------------------
(* Specification of the rate limiter *)

InitRL ==
    /\ users = {}
    /\ notes = {}
    /\ note_seq = 0
    /\ cache = EmptyCache
    /\ now = 0
    /\ issued = {}
    /\ req = [p \in Procs |-> Idle]
    /\ resp = NoResp
    /\ rl = NoKeys
    /\ rlreq = [p \in Procs |-> RLIdle]
    /\ passed = NoPassed
    /\ rlresp = NoResp
    /\ ExtInit

NextRL ==
    \/ \E p \in Procs, h \in Hosts : dispatch_incr(p, h)
    \/ \E p \in Procs : dispatch_expire(p)
    \/ RLTick

SpecRL == InitRL /\ [][NextRL]_vars

----------------------------------------------------------------------------
(* Specification of the rate limiter over unbounded time: the clock is kept  *)
(* relative, an EXPIRE can fail, every request in dispatch gets its next     *)
(* step and time goes on                                                      *)

NextRLLive ==
    \/ \E p \in Procs, h \in Hosts : dispatch_incr(p, h)
    \/ \E p \in Procs : dispatch_expire(p)
    \/ \E p \in Procs : dispatch_expire_fails(p)
    \/ RLElapse

FairRL ==
    /\ WF_vars(RLElapse)
    /\ \A p \in Procs : WF_vars(dispatch_expire(p) \/ dispatch_expire_fails(p))

SpecRLLive == InitRL /\ [][NextRLLive]_vars /\ FairRL

----------------------------------------------------------------------------
(* Claims *)

Stored(username) == \E u \in users : u.username = username

\* C1: after any interleaving of register requests no two stored users have
\* the same username
C1_UniqueUsernames ==
    \A a, b \in users : a.username = b.username => a = b

\* two register requests for one username both passed the existence query;
\* the first commit stored the user, the second hit the unique constraint
C1_Witness ==
    /\ resp.op = "register" /\ resp.status = 500
    /\ Stored(resp.args.username)

\* C2: a register request for a username that is already stored is answered 400
\* "User <username> already exists" and stores nothing
C2_DuplicateRegister ==
    [][\A p \in Procs, u \in Usernames, pw \in RegPasswords :
          (Stored(u) /\ register_user_query(p, u, pw)) =>
              /\ resp'.op = "register"
              /\ resp'.status = 400
              /\ resp'.detail = "User " \o u \o " already exists"
              /\ resp'.body = None
              /\ users' = users]_vars

C2_Witness ==
    /\ resp.op = "register" /\ resp.status = 400
    /\ Stored(resp.args.username)
    /\ resp.detail = "User " \o resp.args.username \o " already exists"

\* C5: a login with an unknown username or a password that does not verify is
\* answered 401 "Invalid username or password", issues no token and changes
\* no stored state
C5_LoginRejected ==
    [][\A u \in Usernames \cup {AdminName}, pw \in Passwords :
          (/\ login_user(u, pw)
           /\ \A r \in users : r.username = u => ~verify_pass(pw, r.password)) =>
              /\ resp'.op = "login"
              /\ resp'.status = 401
              /\ resp'.detail = "Invalid username or password"
              /\ resp'.body = None
              /\ issued' = issued
              /\ UNCHANGED <<users, notes, note_seq, cache>>]_vars

\* a stored user logged in with the wrong password
C5_Witness ==
    /\ resp.op = "login" /\ resp.status = 401
    /\ Stored(resp.args.username)

\* register(u, p) has succeeded: u's row holds a hash made from p
RegisteredWith(u, p) ==
    /\ u \in Usernames
    /\ \E r \in users, salt \in Salts : r.username = u /\ r.password = get_pass_hash(p, salt)

\* a token that /login returned to a user who registered
LoginToken(token) == token \in issued /\ token.sub \in {Some(u) : u \in Usernames}

LoginOK ==
    (resp.op = "login" /\ RegisteredWith(resp.args.username, resp.args.password)) =>
        /\ resp.status = 200
        /\ Get(resp.body).token_type = "bearer"
        /\ Get(resp.body).access_token.sub = Some(resp.args.username)
        /\ Get(resp.body).access_token.key = ServerKey

MeOK ==
    /\ resp.status = 200
    /\ \E r \in users : /\ Some(r.username) = resp.args.token.sub
                        /\ resp.body = Some([id |-> r.id, username |-> r.username])

\* C6 as stated: after register(u, p), login(u, p) returns 200 with a bearer
\* token, and GET /users/me with that token returns u's id and username
C6_Original ==
    /\ LoginOK
    /\ (resp.op = "me" /\ LoginToken(resp.args.token)) => MeOK

\* C6: after register(u, p), login(u, p) returns 200 with a bearer token that
\* expires 30 minutes later, and GET /users/me with that token, presented no
\* later than its expiry, returns u's id and username
C6_LoginThenMe ==
    /\ LoginOK
    /\ (resp.op = "login" /\ resp.status = 200) =>
           Get(resp.body).access_token.exp = now + 30 * 60
    /\ (resp.op = "me" /\ LoginToken(resp.args.token) /\ now <= resp.args.token.exp) => MeOK

\* /users/me answered 200 to a token that /login returned
C6_Witness ==
    /\ resp.op = "me" /\ resp.status = 200
    /\ LoginToken(resp.args.token)
    /\ now > 0

\* the caller of the last request, when its token authenticates
Caller(token) ==
    {u \in users : /\ token \in issued
                   /\ now <= token.exp
                   /\ Some(u.username) = token.sub}

\* C10: GET /admin/users returns the list of all users only to an admin; an
\* authenticated user of any other role gets 403 "Permission error" and no data
C10_AdminOnly ==
    resp.op = "admin_users" =>
        /\ resp.status = 200 =>
              /\ \E u \in Caller(resp.args.token) : u.role = "admin"
              /\ resp.body = Some({[id |-> u.id, username |-> u.username] : u \in users})
        /\ \A u \in Caller(resp.args.token) :
              /\ u.role = "admin" => resp.status = 200
              /\ u.role # "admin" =>
                    /\ resp.status = 403
                    /\ resp.detail = "Permission error"
                    /\ resp.body = None

\* a logged-in user whose role is not admin asked for the list
C10_Witness ==
    /\ resp.op = "admin_users" /\ resp.status = 403
    /\ \E u \in Caller(resp.args.token) : u.role = "user"

C10_WitnessAdmin ==
    /\ resp.op = "admin_users" /\ resp.status = 200
    /\ Cardinality(users) > 1

KeyCount(h) == IF IsNone(rl[h]) THEN 0 ELSE Get(rl[h]).count

\* requests of host h that have incremented the counter and still await EXPIRE
AwaitingExpire(h) ==
    {p \in Procs : IF rlreq[p].pc = "expire" THEN rlreq[p].host = h ELSE FALSE}

\* C9: per host, between the creation of its counter key and the key's expiry
\* at most rate_limit requests reach the application, namely the first
\* rate_limit ones; every further one is answered 429 "Too Many Requests"
\* and no handler runs for it, also with requests of the host in flight
C9_AtMostLimit ==
    /\ \A h \in Hosts :
          /\ passed[h] <= rate_limit
          /\ ~IsNone(rl[h]) =>
                passed[h] = (IF KeyCount(h) < rate_limit THEN KeyCount(h) ELSE rate_limit)
                            - Cardinality(AwaitingExpire(h))
    /\ (rlresp.op = "dispatch" /\ rlresp.args.count > rate_limit) =>
          /\ rlresp.status = 429
          /\ rlresp.detail = "Too Many Requests"
    /\ (rlresp.op = "dispatch" /\ rlresp.args.count <= rate_limit) => rlresp.status # 429

\* a request beyond the limit was answered 429 while the first request of the
\* period had not yet set the expiry
C9_Witness ==
    /\ rlresp.op = "dispatch" /\ rlresp.status = 429
    /\ AwaitingExpire(rlresp.args.host) # {}
    /\ passed[rlresp.args.host] = rate_limit - 1

\* C3: every note in a 200 response of GET /notes belongs to the user the
\* request was authenticated as, whether the list came from the database or
\* from the cache
C3_OwnNotesOnly ==
    (resp.op = "list" /\ resp.status = 200) =>
        \A i \in 1..Len(Get(resp.body)) : Get(resp.body)[i].owner_id = resp.args.uid

\* a non-empty list served from the cache while the other user has a note too
C3_Witness ==
    /\ resp.op = "list" /\ resp.status = 200
    /\ resp.args.from = "cache"
    /\ Len(Get(resp.body)) > 0
    /\ \E n \in notes : n.owner_id # resp.args.uid

\* the authenticated user of token has no note with this id: no such id at
\* all, or the id is a note of somebody else
NoSuchOwnNote(token, note_id) ==
    /\ get_current_user(token).ok
    /\ \A n \in notes : n.id = note_id => n.owner_id # get_current_user(token).user.id

\* C4: get, update and delete of a note id that does not exist or belongs to
\* another user answer 404 "Note not found or access denied" and change
\* neither the notes table nor the cache
C4_NotFound ==
    [][\A token \in issued, note_id \in NoteIds :
          (/\ NoSuchOwnNote(token, note_id)
           /\ \/ get_note_by_id(token, note_id)
              \/ \E p \in SeqProcs, text \in UpdateTexts :
                    update_note_commit(p, token, note_id, text)
              \/ \E p \in SeqProcs : delete_note_commit(p, token, note_id))
          => /\ resp'.status = 404
             /\ resp'.detail = "Note not found or access denied"
             /\ IsNone(resp'.body)
             /\ UNCHANGED <<notes, cache>>]_vars

\* a delete of somebody else's note was answered 404, the note is still stored
\* and its owner's cached list still holds it
C4_Witness ==
    /\ resp.op = "delete" /\ resp.status = 404
    /\ \E n \in notes :
          /\ n.id = resp.args.note_id
          /\ cache_key(n.owner_id, 0, 100, None) \in DOMAIN cache

C4_WitnessUpdate ==
    /\ resp.op = "update" /\ resp.status = 404
    /\ \E n \in notes : n.id = resp.args.note_id

\* C7: when create_note or delete_note of user u has completed successfully
\* (one request at a time), no cache key starts with "notes:{u.id}:"
C7_WriteInvalidates ==
    (resp.op \in {"create", "delete"} /\ resp.status \in {200, 204}) =>
        \A k \in DOMAIN cache : ~HasPrefix(k, "notes:" \o ToString(resp.args.uid) \o ":")

\* a write completed that found two cached lists of its user, and a cached
\* list of the other user is left alone
C7_Witness ==
    /\ resp.op \in {"create", "delete"} /\ resp.status \in {200, 204}
    /\ Cardinality(resp.args.keys) = 2
    /\ cache # EmptyCache

\* the response of an update_note that passed the ownership check
UpdateCompleted == resp.op = "update" /\ resp.status \notin {401, 404}

\* C8: update_note by the owner of the note returns 200 with the note and its
\* new text and leaves no cache key starting with "notes:{u.id}:", so a list
\* served afterwards shows the text that is stored
C8_UpdateInvalidates ==
    /\ UpdateCompleted =>
          /\ resp.status = 200
          /\ \E n \in notes : n.id = resp.args.note_id /\ resp.body = Some(NoteOut(n))
          /\ \A k \in DOMAIN cache :
                ~HasPrefix(k, "notes:" \o ToString(resp.args.uid) \o ":")
    /\ (resp.op = "list" /\ resp.status = 200) =>
          \A i \in 1..Len(Get(resp.body)) :
             \A n \in notes : n.id = Get(resp.body)[i].id => n.text = Get(resp.body)[i].text

\* what the code does: the update is committed, the response is 500 and the
\* cached lists of the user stay
C8_UpdateFails ==
    UpdateCompleted =>
        /\ resp.status = 500
        /\ \E n \in notes : n.id = resp.args.note_id /\ n.text \in UpdateTexts
        /\ scan_iter(ScanPrefix(resp.args.uid)) = resp.args.keys

\* a list served from the cache shows the text from before a committed update
C8_StaleList ==
    /\ resp.op = "list" /\ resp.status = 200 /\ resp.args.from = "cache"
    /\ \E i \in 1..Len(Get(resp.body)) :
          \E n \in notes : n.id = Get(resp.body)[i].id /\ n.text # Get(resp.body)[i].text

\* the note ids handed out so far whose row is gone (ids are never reused)
Deleted == {id \in 1..note_seq : \A n \in notes : n.id # id}

\* C11: delete_note by the owner of an existing note removes exactly that
\* note and is answered 204; from then on get_note_by_id of it is answered
\* 404 and no list built from the database holds it
C11_DeleteOwn ==
    [][/\ \A token \in issued, note_id \in NoteIds :
             \A n \in notes :
                (/\ n.id = note_id
                 /\ get_current_user(token).ok
                 /\ n.owner_id = get_current_user(token).user.id
                 /\ \E p \in SeqProcs : delete_note_commit(p, token, note_id))
                => notes' = notes \ {n}
       /\ \A p \in SeqProcs :
             (req[p].op = "delete" /\ delete_note_invalidate(p))
                => /\ resp'.status = 204
                   /\ IsNone(resp'.body)
                   /\ req[p].note_id \in Deleted
                   /\ UNCHANGED notes
       /\ \A token \in issued, note_id \in Deleted :
             get_note_by_id(token, note_id) => resp'.status = 404
       /\ (resp'.op = "list" /\ resp'.status = 200) =>
             (resp'.args.from = "db" =>
                \A i \in 1..Len(Get(resp'.body)) : Get(resp'.body)[i].id \notin Deleted')
      ]_vars

\* the owner's delete was answered 204, the note is gone and the other note
\* is still stored
C11_Witness ==
    /\ resp.op = "delete" /\ resp.status = 204
    /\ resp.args.note_id \in Deleted
    /\ \E n \in notes : n.owner_id = resp.args.uid

\* a get of a deleted note was answered 404
C11_WitnessGet ==
    /\ resp.op = "get" /\ resp.status = 404
    /\ resp.args.note_id \in Deleted

\* the token decodes with the server key, is not expired, carries a sub claim
\* and the sub is the username of a stored user
ValidToken(token) ==
    /\ token.key = ServerKey
    /\ token.exp >= now
    /\ Len(token.sub) = 1
    /\ \E u \in users : u.username = token.sub[1]

\* the first step of an endpoint that depends on get_current_user
EndpointStep(token) ==
    \/ get_me(token)
    \/ get_all_users(token)
    \/ trigger_task(token)
    \/ \E p \in SeqProcs, x \in CreateTexts : create_note_commit(p, token, x)
    \/ \E p \in SeqProcs : get_notes_query(p, token, 0, 100, None)
    \/ \E id \in NoteIds : get_note_by_id(token, id)
    \/ \E p \in SeqProcs, id \in NoteIds, x \in UpdateTexts :
          update_note_commit(p, token, id, x)
    \/ \E p \in SeqProcs, id \in NoteIds : delete_note_commit(p, token, id)

C12_WitnessGhost == resp.status = 401 /\ resp.op = "trigger_task" /\ resp.args.token = GhostToken

C12_WitnessNoSub == resp.status = 401 /\ resp.op = "delete" /\ resp.args.token = NoSubToken

\* C13: /health answers 200 {"status": "ok"} when the probe query returns and
\* 503 "Service Unavailable" when it raises a SQLAlchemyError, and changes no
\* stored state
C13_Health ==
    [][\A o \in ProbeOutcomes :
          health(o) =>
             /\ o = "ok" => resp'.status = 200 /\ resp'.body = Some([status |-> "ok"])
             /\ o = "SQLAlchemyError" =>
                   /\ resp'.status = 503
                   /\ resp'.detail = "Service Unavailable"
                   /\ IsNone(resp'.body)
             /\ UNCHANGED <<users, notes, note_seq, cache, issued, req, tasks>>]_vars

\* a failed probe was answered 503 while users are stored
C13_Witness ==
    /\ resp.op = "health" /\ resp.status = 503
    /\ resp.args.probe = "SQLAlchemyError"
    /\ users # {}

C13_WitnessOk == resp.op = "health" /\ resp.status = 200 /\ users # {}

\* C14: a text message received on /ws has been sent, with the prefix
\* "User <sender>: ", to every connection that was in the active list for the
\* whole broadcast, the sender included, whatever connects or disconnects
\* meanwhile
C14_BroadcastReachesAll ==
    (wsresp.op = "broadcast" /\ wsresp.args.kind = "text") =>
        /\ wsresp.args.stayed \subseteq Get(wsresp.body)
        /\ wsresp.args.conn \in Get(wsresp.body)
        /\ \E u \in Usernames, d \in WsTexts : wsresp.detail = "User " \o u \o ": " \o d

\* what holds of a finished broadcast: it carries the sender's prefix and was
\* sent only to connections that were in the list at some time of it
C14_Prefix ==
    (wsresp.op = "broadcast" /\ wsresp.args.kind = "text") =>
        \E u \in Usernames, d \in WsTexts : wsresp.detail = "User " \o u \o ": " \o d

\* a broadcast of a text ended without the sender having got it, although the
\* sender was in the list all the time
C14_SenderSkipped ==
    /\ wsresp.op = "broadcast" /\ wsresp.args.kind = "text"
    /\ wsresp.args.conn \in wsresp.args.stayed
    /\ wsresp.args.conn \notin Get(wsresp.body)

\* the stored value is the bcrypt hash of pw: the digest of pw under the salt
\* the value carries
HashOf(stored, pw) ==
    stored.scheme = "bcrypt" /\ stored.digest = <<"H", stored.salt, pw>>

\* C15: every stored password is a bcrypt hash and not a plaintext, a
\* successful /register has stored the hash of the password it was given, no
\* stored row changes afterwards, and /login answers 200 exactly when the
\* password verifies against the hash stored for the username
C15_PasswordHashed ==
    [][/\ \A u \in users' :
             /\ u.password.scheme = "bcrypt"
             /\ \A pw \in Passwords : u.password.digest # <<pw>>
       /\ (resp'.op = "register" /\ resp'.status = 200) =>
             \E u \in users' : /\ u.username = resp'.args.username
                               /\ HashOf(u.password, resp'.args.password)
       /\ users \subseteq users'
       /\ \A username \in Usernames \cup {AdminName}, pw \in Passwords :
             login_user(username, pw) =>
                /\ resp'.status \in {200, 401}
                /\ resp'.status = 200 <=>
                      \E u \in users : u.username = username /\ HashOf(u.password, pw)
      ]_vars

\* a user registered through the API has logged in, and
\* a login with the other password is refused for the same row
C15_Witness ==
    /\ resp.op = "login" /\ resp.status = 200
    /\ resp.args.username \in Usernames
    /\ \E u \in users : u.username = resp.args.username /\ ~HashOf(u.password, "p2")

C15_WitnessRefused ==
    /\ resp.op = "login" /\ resp.status = 401
    /\ \E u \in users : u.username = resp.args.username /\ u.username \in Usernames

RECURSIVE Lower(_)
Lower(str) == IF Len(str) = 0 THEN "" ELSE LowerChr(Chr(str, 1)) \o Lower(Rest(str))

\* sub occurs in str, letters compared without regard to case
ContainsNoCase(str, sub) ==
    \E i \in 1..(Len(str) - Len(sub) + 1) :
        Lower(SubSeq(str, i, i + Len(sub) - 1)) = Lower(sub)

\* the notes GET /notes is to select
Matching(uid, search) ==
    {n \in notes : /\ n.owner_id = uid
                   /\ (Len(search) = 0 \/ ContainsNoCase(n.text, search[1]))}

\* rows is the page (skip, limit) of some newest-first ordering of the set
PageOf(rows, set, skip, limit) ==
    \E f \in [1..Cardinality(set) -> set] :
        /\ \A i, j \in 1..Cardinality(set) : i # j => f[i] # f[j]
        /\ \A i, j \in 1..Cardinality(set) : i < j => f[i].created_at >= f[j].created_at
        /\ Len(rows) = (IF Cardinality(set) - skip < 0 THEN 0
                        ELSE IF Cardinality(set) - skip < limit THEN Cardinality(set) - skip
                        ELSE limit)
        /\ \A i \in 1..Len(rows) : rows[i] = f[skip + i]

\* the query step of GET /notes on a cache miss
ListMiss(p, token, q) ==
    /\ get_notes_query(p, token, q[1], q[2], q[3])
    /\ req'[p].op = "list"

\* C16: on a cache miss GET /notes returns the notes of the user whose text
\* contains search without regard to case (all when search is absent), newest
\* first, without the first skip of them and at most limit of them
C16_ListQuery ==
    [][\A p \in SeqProcs, token \in issued, q \in SearchParams :
          ListMiss(p, token, q) =>
             PageOf(req'[p].rows, Matching(req'[p].uid, q[3]), q[1], q[2])]_vars

\* the same for a search without the characters % and _
C16_ListQueryPlain ==
    [][\A p \in SeqProcs, token \in issued, q \in SearchParams :
          (ListMiss(p, token, q) /\ q[3] # Some("_") /\ q[3] # Some("%")) =>
             PageOf(req'[p].rows, Matching(req'[p].uid, q[3]), q[1], q[2])]_vars

\* a note was returned for the search "_" although its text has no "_"
C16_WildcardMatch ==
    /\ req[1].op = "list"
    /\ req[1].key = cache_key(1, 0, 100, Some("_"))
    /\ Len(req[1].rows) > 0
    /\ \A i \in 1..Len(req[1].rows) : ~ContainsNoCase(req[1].rows[i].text, "_")

\* the second page of two notes created at different times holds the older one
C16_SecondPage ==
    /\ req[1].op = "list"
    /\ req[1].key = cache_key(1, 1, 1, None)
    /\ Len(req[1].rows) = 1
    /\ \E n \in notes : n.owner_id = 1 /\ n.created_at > req[1].rows[1].created_at

\* C17: in the task 9 snapshot delete_note by the owner of an existing note
\* is answered 200 with the body message "Note is deleted"
C17_Delete9 ==
    (resp.op = "delete_9" /\ resp.status \notin {401, 404}) =>
        /\ resp.status = 200
        /\ resp.body = Some([message |-> "Note is deleted"])

\* what the snapshot answers: 204, and the note is gone
C17_Delete9Status ==
    (resp.op = "delete_9" /\ resp.status \notin {401, 404}) =>
        /\ resp.status = 204
        /\ \A n \in notes : n.id # resp.args.note_id

\* an owner's delete in the snapshot was answered 204 while the other user's
\* note stays
C17_Deleted204 ==
    /\ resp.op = "delete_9" /\ resp.status = 204
    /\ notes # {}

\* no create_note or delete_note is between its commit and its response
NoWriteInFlight == \A p \in Procs : req[p].op \notin {"create", "delete"}

\* C18: a GET /notes of user u that starts when every create_note and
\* delete_note of u has completed returns the notes u has then, also when it
\* is served from the cache and requests of u ran concurrently before
C18_ReadYourWrites ==
    (resp.op = "list" /\ resp.status = 200 /\ resp.args.from = "cache" /\ NoWriteInFlight) =>
        {Get(resp.body)[i].id : i \in 1..Len(Get(resp.body))}
            = {n.id : n \in {m \in notes : m.owner_id = resp.args.uid}}

\* a list from the cache lacks a note whose create_note has completed, with
\* no request in flight at all
C18_StaleAfterWrite ==
    /\ resp.op = "list" /\ resp.status = 200 /\ resp.args.from = "cache"
    /\ \A p \in Procs : req[p] = Idle
    /\ \E n \in notes : /\ n.owner_id = resp.args.uid
                        /\ \A i \in 1..Len(Get(resp.body)) : Get(resp.body)[i].id # n.id

\* a list from the cache still holds a note whose delete_note has completed
C18_StaleAfterDelete ==
    /\ resp.op = "list" /\ resp.status = 200 /\ resp.args.from = "cache"
    /\ \A p \in Procs : req[p] = Idle
    /\ \E i \in 1..Len(Get(resp.body)) : \A n \in notes : n.id # Get(resp.body)[i].id

\* C19: of two /register requests for one new username that both ran the
\* existence query before either committed, one creates the user and the
\* other is answered 400: every /register is answered 200 or 400 and a
\* username is stored once
C19_RaceAnswered400 ==
    /\ \A u, v \in users : u.username = v.username => u = v
    /\ resp.op = "register" =>
          /\ resp.status \in {200, 400}
          /\ resp.status = 400 =>
                resp.detail = "User " \o resp.args.username \o " already exists"

\* the second of two racing /register requests was answered 500, the
\* username being stored once
C19_Race500 ==
    /\ resp.op = "register" /\ resp.status = 500
    /\ Cardinality({u \in users : u.username = resp.args.username}) = 1

\* what holds: a /register is answered 500 only when the username was stored
\* between its query and its commit, and it stores nothing then
C19_RaceLoserStoresNothing ==
    [][\A p \in Procs :
          (req[p].op = "register" /\ register_user_commit(p)) =>
             IF \E u \in users : u.username = req[p].username
             THEN resp'.status = 500 /\ users' = users
             ELSE resp'.status = 200]_vars

Limited(h) == rlresp.op = "dispatch" /\ rlresp.status = 429 /\ rlresp.args.host = h

\* C20: a host that was answered 429 gets its counter reset: every counter
\* key has an expiry once the request that created it has left dispatch, and
\* after a 429 the key of the host is eventually gone
C20_EventuallyReset ==
    /\ [](\A h \in Hosts :
            (~IsNone(rl[h]) /\ AwaitingExpire(h) = {}) => ~IsNone(Get(rl[h]).exp))
    /\ \A h \in Hosts : Limited(h) ~> IsNone(rl[h])

\* what holds: a key that has an expiry is gone after at most the window
C20_ResetOnceExpirySet ==
    \A h \in Hosts :
        (IF IsNone(rl[h]) THEN FALSE ELSE ~IsNone(Get(rl[h]).exp)) ~> IsNone(rl[h])

\* what holds: an EXPIRE that is carried out sets the expiry to the window
C20_ExpireSetsWindow ==
    [][\A p \in Procs :
          (rlreq[p].pc = "expire" /\ dispatch_expire(p)) =>
             Get(rl'[rlreq[p].host]).exp = Some(now + rate_limit_window)]_vars

\* a host is answered 429 under a key that has no expiry and that no request
\* is going to give one
C20_BlockedForever ==
    /\ rlresp.op = "dispatch" /\ rlresp.status = 429
    /\ IsNone(Get(rl[rlresp.args.host]).exp)
    /\ \A p \in Procs : rlreq[p] = RLIdle

\* C21: a cached list is stored with an expiry 600 seconds ahead, is served
\* only before that expiry and is gone from the cache at it, and a request
\* whose key is not in the cache queries the database
C21_CacheExpiry ==
    [][/\ \A p \in SeqProcs :
             (req[p].op = "list" /\ get_notes_setex(p)) =>
                cache'[req[p].key].exp = now + 600
       /\ \A k \in DOMAIN cache' : cache'[k].exp > now' /\ cache'[k].exp <= now' + 600
       /\ (resp'.op = "list" /\ resp'.status = 200) =>
             (resp'.args.from = "cache" =>
                /\ resp'.args.key \in DOMAIN cache
                /\ now < cache[resp'.args.key].exp)
       /\ \A p \in SeqProcs, t \in issued, q \in ListParams :
             (/\ get_notes_query(p, t, q[1], q[2], q[3])
              /\ cache_key(get_current_user(t).user.id, q[1], q[2], q[3]) \notin DOMAIN cache)
             => req'[p].op = "list" /\ req'[p].pc = "setex"
      ]_vars

\* 600 seconds or more after the start a request misses the cache for one
\* key while a list stored later for another key is still cached
C21_Witness ==
    /\ now >= 600
    /\ req[1].op = "list"
    /\ req[1].key \notin DOMAIN cache
    /\ \E k \in DOMAIN cache : cache[k].exp < now + 600

\* C22: a user stored by /register has role "user", no step changes or
\* removes a stored user, and /admin/users called with the unexpired token
\* of a user created through /register is answered 403
C22_NoEscalation ==
    [][/\ \A u \in users' : u.username \in Usernames => u.role = "user"
       /\ users \subseteq users'
       /\ (resp'.op = "register" /\ resp'.status = 200) =>
             \E u \in users' : u.username = resp'.args.username /\ u.role = "user"
       /\ (/\ resp'.op = "admin_users"
           /\ resp'.args.token \in issued
           /\ resp'.args.token.exp >= now
           /\ \E n \in Usernames : resp'.args.token.sub = <<n>>)
          => resp'.status = 403 /\ IsNone(resp'.body)
      ]_vars

\* with no hand-made admin in the table, a registered and logged-in user
\* was refused on /admin/users
C22_Witness ==
    /\ resp.op = "admin_users" /\ resp.status = 403
    /\ resp.args.token \in issued
    /\ users # {}
    /\ \A u \in users : u.username \in Usernames

\* the cache keys of the lists of the user with this id
KeysOf(uid) == {cache_key(uid, q[1], q[2], q[3]) : q \in ListParams}

\* C23: the invalidation step of a write of user u leaves every cached list
\* of every other user in the cache with its value, also when the decimal id
\* of the other user begins with the id of u
C23_OnlyOwnKeys ==
    [][\A p \in SeqProcs :
          (/\ req[p].op \in {"create", "update", "delete"}
           /\ \/ create_note_invalidate(p)
              \/ update_note_invalidate(p)
              \/ delete_note_invalidate(p))
          => \A v \in users :
                v.id # req[p].uid =>
                   \A k \in KeysOf(v.id) \cap DOMAIN cache :
                      k \in DOMAIN cache' /\ cache'[k] = cache[k]]_vars

\* a write of user 1 has deleted the two cached lists of user 1 and both
\* cached lists of user 10 are still there
C23_Witness ==
    /\ resp.op \in {"create", "delete"} /\ resp.status \in {200, 204}
    /\ resp.args.uid = 1
    /\ Cardinality(resp.args.keys) = 2
    /\ KeysOf(10) \subseteq DOMAIN cache

\* (user id, skip, limit, search) of requests, with ids, numbers and texts
\* that repeat each other's digits and colons
KeyParams ==
    {1, 10, 11} \X {0, 1, 10} \X {1, 10, 100} \X {None, Some("b"), Some("B"), Some("0:b"), Some("1")}

\* the parameters of the list request that has just taken its first step
ListStep(p, token, q) ==
    /\ get_current_user(token).ok
    /\ get_notes_query(p, token, q[1], q[2], q[3])

\* the key the list request that has just taken its first step works with
KeyUsed(p) == IF resp'.op = "list" THEN resp'.args.key ELSE req'[p].key

\* C24: a list served from the cache is the value stored under its key read
\* back, the value stored is the list the database query of the storing
\* request returned, it stays as stored, and the key of a request is the key
\* of no request that differs in user id, skip, limit or search
C24_CacheFaithful ==
    [][/\ \A p \in SeqProcs :
             (req[p].op = "list" /\ get_notes_setex(p)) =>
                /\ resp'.args.key = req[p].key
                /\ Some(LoadNotes(cache'[req[p].key].val)) = resp'.body
                /\ \A i \in 1..Len(req[p].rows) :
                      /\ Get(resp'.body)[i].id = req[p].rows[i].id
                      /\ Get(resp'.body)[i].text = req[p].rows[i].text
                      /\ Get(resp'.body)[i].created_at = req[p].rows[i].created_at
                      /\ Get(resp'.body)[i].owner_id = req[p].rows[i].owner_id
                /\ \A k \in DOMAIN cache \ {req[p].key} :
                      k \in DOMAIN cache' /\ cache'[k] = cache[k]
       /\ (\A p \in SeqProcs : ~(req[p].op = "list" /\ get_notes_setex(p))) =>
             \A k \in DOMAIN cache' : k \in DOMAIN cache /\ cache'[k] = cache[k]
       /\ (resp'.op = "list" /\ resp'.status = 200) =>
             (resp'.args.from = "cache" =>
                resp'.body = Some(LoadNotes(cache[resp'.args.key].val)))
       /\ \A p \in SeqProcs, token \in issued, q \in ListParams :
             ListStep(p, token, q) =>
                \A b \in KeyParams :
                   b # <<get_current_user(token).user.id, q[1], q[2], q[3]>>
                      => cache_key(b[1], b[2], b[3], b[4]) # KeyUsed(p)
      ]_vars

\* a list with notes in it was served from the cache while a second list of
\* the same user, stored for other parameters, is cached beside it
C24_Witness ==
    /\ resp.op = "list" /\ resp.status = 200 /\ resp.args.from = "cache"
    /\ Len(Get(resp.body)) > 0
    /\ KeysOf(resp.args.uid) \subseteq DOMAIN cache
    /\ \E k \in KeysOf(resp.args.uid) : cache[k].val # cache[resp.args.key].val

\* C25: update_note changes the text of the addressed note and nothing else of
\* it, no other note and no user; a note is created with the id of the user
\* who created it as owner_id and keeps that owner_id in every step
C25_UpdateFrame ==
    [][/\ \A p \in SeqProcs :
             (req[p] = Idle /\ req'[p].op = "update") =>
                /\ users' = users
                /\ \E old \in notes, x \in UpdateTexts :
                      /\ old.id = req'[p].note.id
                      /\ notes' = (notes \ {old}) \cup
                                     {[id |-> old.id, text |-> x,
                                       created_at |-> old.created_at,
                                       owner_id |-> old.owner_id]}
       /\ \A p \in SeqProcs :
             req[p].op = "update" => (notes' = notes /\ users' = users)
       /\ \A m \in notes' :
             IF \E n \in notes : n.id = m.id
             THEN \A n \in notes : n.id = m.id => n.owner_id = m.owner_id
             ELSE \E p \in SeqProcs, token \in issued, u \in users :
                     /\ create_note_commit(p, token, m.text)
                     /\ token.sub = <<u.username>>
                     /\ m.owner_id = u.id
      ]_vars

\* the second user has updated a note of theirs while the first user has a
\* note as well
C25_Witness ==
    /\ resp.op = "update" /\ resp.status # 401 /\ resp.status # 404
    /\ resp.args.uid = 2
    /\ \E n \in notes : n.owner_id = 2 /\ n.text \in UpdateTexts /\ n.id = resp.args.note_id
    /\ \E n \in notes : n.owner_id = 1

\* the handler of c is in its receive loop: waiting in receive_text or
\* broadcasting what it received
InLoop(c) == ws[c].pc = "open" \/ (ws[c].pc = "broadcast" /\ ws[c].kind = "text")

Occurrences(list, c) == Cardinality({i \in 1..Len(list) : list[i] = c})

\* the list holds each socket whose handler is in its receive loop once and
\* no other socket
ActiveListExact ==
    \A c \in Conns : Occurrences(active_connections, c) = (IF InLoop(c) THEN 1 ELSE 0)

\* connect appends the socket, which was not in the list; a handler that
\* leaves its loop, by a disconnect or by an error, removes its socket, which
\* is in the list, and no handler removes another's; a message is sent only to
\* a socket that is in the list at that time
AddRemoveOnce ==
    [][\A c \in Conns :
          /\ (~InLoop(c) /\ InLoop(c)') =>
                (Occurrences(active_connections, c) = 0
                 /\ active_connections' = Append(active_connections, c))
          /\ (InLoop(c) /\ ~InLoop(c)') =>
                (Occurrences(active_connections, c) = 1
                 /\ Occurrences(active_connections', c) = 0
                 /\ \A d \in Conns \ {c} :
                       Occurrences(active_connections', d) = Occurrences(active_connections, d))
          /\ (ws[c].pc = "broadcast" /\ ws'[c].pc = "broadcast"
                 /\ ws'[c].message = ws[c].message) =>
                \A d \in ws'[c].got \ ws[c].got :
                   Occurrences(active_connections, d) = 1 /\ InLoop(d)
      ]_vars

\* C26: the active list holds exactly the sockets whose handler is in its
\* receive loop, each once; connect adds the socket once, a handler that
\* leaves its loop on a disconnect or an error removes its own socket, which
\* is in the list, once, and a socket out of the list is sent no message
C26_Manager == []ActiveListExact /\ AddRemoveOnce

\* a handler has left its loop on an error of a send while two others stay in
\* the list
C26_Witness ==
    /\ wsresp.op = "send_failed" /\ wsresp.args.kind = "text"
    /\ wsresp.args.exc = "Exception"
    /\ Len(active_connections) = 2
    /\ ws[wsresp.args.conn].pc = "closed"

\* C27: when a send of a broadcast fails, the sender stays in the list with
\* its handler in the loop and goes on with the same broadcast, so that the
\* recipients after the failed one get the message
C27_FailureIsolated ==
    [][(wsresp'.op = "send_failed" /\ wsresp'.args.kind = "text") =>
          LET c == wsresp'.args.conn
          IN  /\ Occurrences(active_connections', c) = 1
              /\ ws'[c].pc = "broadcast"
              /\ ws'[c].message = ws[c].message
      ]_vars

\* a send to the first of three connections in the list failed: the sender
\* is out of the list and the third connection has not got the message
C27_SenderDropped ==
    /\ wsresp.op = "send_failed" /\ wsresp.args.kind = "text"
    /\ wsresp.args.rest # {}
    /\ \E r \in wsresp.args.rest : r # wsresp.args.conn /\ r \notin Get(wsresp.body)
    /\ Occurrences(active_connections, wsresp.args.conn) = 0

\* C28: the expiry of a counter key changes in one kind of step only, the
\* EXPIRE of the request whose INCR returned 1, which gives a key without
\* expiry the expiry now + rate_limit_window; a request that increments an
\* existing key, answered 429 or not, leaves the expiry as it is, and a key
\* goes only when its expiry is reached
C28_ExpiryFixedByFirst ==
    [][\A h \in Hosts :
          ~IsNone(rl[h]) =>
             IF IsNone(rl'[h])
             THEN ~IsNone(Get(rl[h]).exp) /\ Get(Get(rl[h]).exp) <= now' /\ now' > now
             ELSE /\ Get(rl'[h]).count # Get(rl[h]).count =>
                        Get(rl'[h]).exp = Get(rl[h]).exp
                  /\ Get(rl'[h]).exp # Get(rl[h]).exp =>
                        /\ IsNone(Get(rl[h]).exp)
                        /\ Get(rl'[h]).exp = Some(now + rate_limit_window)
                        /\ \E p \in Procs :
                              /\ rlreq[p].pc = "expire" /\ rlreq[p].host = h
                              /\ rlreq[p].count = 1
                              /\ rlreq'[p] = RLIdle
      ]_vars

\* a request was answered 429, some time into the period, and the key has
\* the expiry the first request of the period gave it
C28_Witness ==
    /\ rlresp.op = "dispatch" /\ rlresp.status = 429
    /\ now > 0
    /\ \E h \in Hosts :
          /\ h = rlresp.args.host
          /\ ~IsNone(rl[h])
          /\ Get(rl[h]).exp = Some(rate_limit_window)

\* C29: the token's expiry is the time of issuance plus expires_delta when an
\* expires_delta is passed, a zero one included, and the time of issuance plus
\* 30 minutes when none is passed
C29_ExpiryIsIssuancePlusDelta ==
    resp.op = "create_access_token" =>
       Get(resp.body).exp =
          IF IsNone(resp.args.expires_delta)
          THEN resp.args.utcnow + 30 * 60
          ELSE resp.args.utcnow + Get(resp.args.expires_delta)

\* the same for every expires_delta but zero
C29_ExpiryNonZeroDelta ==
    (resp.op = "create_access_token" /\ resp.args.expires_delta # Some(0)) =>
       Get(resp.body).exp =
          IF IsNone(resp.args.expires_delta)
          THEN resp.args.utcnow + 30 * 60
          ELSE resp.args.utcnow + Get(resp.args.expires_delta)

\* a token issued with a zero expires_delta expires 30 minutes later
C29_ZeroDeltaGetsDefault ==
    /\ resp.op = "create_access_token"
    /\ resp.args.expires_delta = Some(0)
    /\ resp.args.utcnow > 0
    /\ Get(resp.body).exp = resp.args.utcnow + 30 * 60

\* what the client sees of a response
Seen(r) == [status |-> r.status, detail |-> r.detail, body |-> r.body]

\* C30: a login with a username that is not stored and a login with a stored
\* username and a wrong password are answered with one and the same response,
\* 401 with the detail "Invalid username or password"
C30_SameRejection ==
    [][resp'.op = "login" =>
          LET found == {u \in users : u.username = resp'.args.username}
              rejection == [status |-> 401, detail |-> "Invalid username or password",
                            body |-> None]
          IN  /\ found = {} => Seen(resp') = rejection
              /\ (found # {} /\ \A u \in found :
                                   ~verify_pass(resp'.args.password, u.password))
                    => Seen(resp') = rejection
      ]_vars

\* a login with a stored username and a wrong password was rejected while
\* another username of the clients is not stored
C30_Witness ==
    /\ resp.op = "login" /\ resp.status = 401
    /\ \E u \in users : u.username = resp.args.username
    /\ \E n \in Usernames : \A u \in users : u.username # n

====
